---- MODULE Spec2Model ----
(***************************************************************************)
(* Model of lib/ClangImporter/ClangModuleDependencyScanner.cpp:            *)
(* the construction of the Clang dependency-scanning command line, the     *)
(* working-directory resolution, the bridging of the scanner's module      *)
(* graph into ModuleDependencyInfo records, and the extension of a Swift   *)
(* module's record with the dependencies of its bridging header.           *)
(***************************************************************************)
EXTENDS Integers, Sequences, FiniteSets, TLC

VARIABLES
    assertsEnabled,   \* the build: TRUE when assert() is compiled in (no NDEBUG)
    inputArgs,        \* ArgSpec: the argument list handed to the function under test
    searchPathOpts,   \* ctx.SearchPathOpts: FrameworkSearchPaths, ImportSearchPaths, ScannerPrefixMapper
    sourceFileName,   \* ArgSpec: the optional sourceFileName (NoSource = std::nullopt)
    invocation,       \* ArgSpec: outcome of getClangDepScanningInvocationArguments
    workingDir,       \* ArgSpec: outcome of computeClangWorkingDirectory
    diags,            \* ctx.Diags: the diagnostics emitted by the last call
    bridging,         \* ModSpec: the run of getModuleDependencies / the bridging loop
    cache,            \* ModuleDependenciesCache: the recorded (ID, info) entries
    seen,             \* ModuleDependenciesCache: the already-seen Clang modules
    extended,         \* Spec: the modules a successful addBridgingHeaderDependencies was run on
    lastCall,         \* Spec: what the last call of addBridgingHeaderDependencies did
    pc,               \* ConcSpec: where each thread's addBridgingHeaderDependencies stands
    local,            \* ConcSpec: each thread's locals (targetModule, scan result)
    recordCount,      \* ConcSpec: how many scan results were written per ModuleDependencyID
    lookup,           \* PathSpec: the module ID and module cache path an output path is asked for
    outputs           \* PathSpec: the output paths returned so far, one per ModuleOutputKind

argVars == <<inputArgs, searchPathOpts, sourceFileName, invocation, workingDir>>
cacheVars == <<cache, seen, extended, lastCall>>
concVars == <<pc, local, recordCount>>
pathVars == <<lookup, outputs>>

vars == <<assertsEnabled, inputArgs, searchPathOpts, sourceFileName,
          invocation, workingDir, diags, bridging, cache, seen, extended,
          lastCall, pc, local, recordCount, lookup, outputs>>

-----------------------------------------------------------------------------
(* Bounds of the model. *)

\* longest argument list drawn as an input
MaxArgs == 4

-----------------------------------------------------------------------------
(* Strings and argument lists. *)

Sentinel == "<swift-imported-modules>"
ModuleFormatPrefix == "-fmodule-format="
SyntaxOnly == "-fsyntax-only"
WorkingDirectoryFlag == "-working-directory"
NoSource == "<nullopt>"
NotCalled == [status |-> "not-called"]

\* StringRef::startswith
startswith(arg, prefix) ==
    /\ Len(arg) >= Len(prefix)
    /\ SubSeq(arg, 1, Len(prefix)) = prefix

\* The first index of a set of indices, or `end' when the set is empty.
FirstOf(indices, end) ==
    IF indices = {} THEN end
    ELSE CHOOSE i \in indices : \A j \in indices : i <= j

\* std::find: the first index holding x, or Len(s) + 1 (the end iterator).
Find(s, x) ==
    FirstOf({i \in 1..Len(s) : s[i] = x}, Len(s) + 1)

\* std::find_if with the startswith predicate.
FindPrefix(s, prefix) ==
    FirstOf({i \in 1..Len(s) : startswith(s[i], prefix)}, Len(s) + 1)

\* std::vector::erase(first, last) on valid positions: removes s[first..last-1].
Erase(s, first, last) ==
    SubSeq(s, 1, first - 1) \o SubSeq(s, last, Len(s))

\* *pos = value
Assign(s, pos, value) ==
    [s EXCEPT ![pos] = value]

\* The concatenation of a sequence of sequences.
RECURSIVE Flatten(_)
Flatten(ss) ==
    IF ss = <<>> THEN <<>> ELSE Head(ss) \o Flatten(Tail(ss))

Elems(s) == {s[i] : i \in 1..Len(s)}

-----------------------------------------------------------------------------
(* addSearchPathInvocationArguments *)

FrameworkArgs(framepath) ==
    <<IF framepath.IsSystem THEN "-iframework" ELSE "-F", framepath.Path>>

ImportArgs(path) == <<"-I", path>>

PrefixMapArgs(arg) == <<"-fdepscan-prefix-map=" \o arg>>

addSearchPathInvocationArguments(invocationArgStrs, opts) ==
    invocationArgStrs
        \o Flatten([i \in DOMAIN opts.FrameworkSearchPaths |->
                        FrameworkArgs(opts.FrameworkSearchPaths[i])])
        \o Flatten([i \in DOMAIN opts.ImportSearchPaths |->
                        ImportArgs(opts.ImportSearchPaths[i])])
        \o Flatten([i \in DOMAIN opts.ScannerPrefixMapper |->
                        PrefixMapArgs(opts.ScannerPrefixMapper[i])])

-----------------------------------------------------------------------------
(* getClangDepScanningInvocationArguments                                  *)
(*                                                                         *)
(* The function is a chain of three edits, each guarded by assert().  An   *)
(* outcome is [status, args]: "ok" when a list is returned, "abort" when   *)
(* an assertion stops the process (asserts compiled in), "crash" when the  *)
(* undefined behaviour of an edit at an invalid iterator faults.  With     *)
(* asserts compiled out the edit at the invalid iterator is undefined      *)
(* behaviour: it may fault, or it may go on with the vector damaged (ub    *)
(* is then TRUE in the outcome).                                           *)

Abort == [status |-> "abort", args |-> <<>>, ub |-> FALSE]
Crash == [status |-> "crash", args |-> <<>>, ub |-> TRUE]
Going(args, ub) == [status |-> "ok", args |-> args, ub |-> ub]

\* The outcomes of an edit at an invalid position: an abort when the assert
\* is compiled in; otherwise a fault, or the run goes on with one of `damaged'.
InvalidEdit(asserts, damaged, ub) ==
    IF asserts THEN {Abort}
    ELSE {Crash} \cup {Going(d, TRUE) : d \in damaged}

\* lines 92-99: replace the sentinel by the source file, or erase it
SubstituteSourceFile(st, src, asserts) ==
    LET args == st.args
        sourceFilePos == Find(args, Sentinel)
    IN  IF sourceFilePos = Len(args) + 1
        THEN \* *end() = ... writes past the last element; erase(end()) drops one
             InvalidEdit(asserts,
                         IF src # NoSource \/ args = <<>> THEN {args}
                         ELSE {args, SubSeq(args, 1, Len(args) - 1)},
                         st.ub)
        ELSE IF src # NoSource
             THEN {Going(Assign(args, sourceFilePos, src), st.ub)}
             ELSE {Going(Erase(args, sourceFilePos, sourceFilePos + 1), st.ub)}

\* lines 103-112: drop the -fmodule-format= argument and the one before it
DropModuleFormatMutant(st, asserts) ==
    LET args == st.args
        moduleFormatPos == FindPrefix(args, ModuleFormatPrefix)
    IN  IF moduleFormatPos = Len(args) + 1
        THEN InvalidEdit(asserts, {args}, st.ub)
        ELSE {Going(Erase(args, moduleFormatPos, moduleFormatPos + 1), st.ub)}

DropModuleFormat(st, asserts) ==
    LET args == st.args
        moduleFormatPos == FindPrefix(args, ModuleFormatPrefix)
    IN  IF moduleFormatPos = Len(args) + 1
        THEN \* erase(end() - 1, end() + 1)
             InvalidEdit(asserts,
                         IF args = <<>> THEN {args}
                         ELSE {args, SubSeq(args, 1, Len(args) - 1)},
                         st.ub)
        ELSE IF moduleFormatPos = 1
        THEN \* erase(begin() - 1, begin() + 1)
             InvalidEdit(asserts, {args, Tail(args)}, st.ub)
        ELSE {Going(Erase(args, moduleFormatPos - 1, moduleFormatPos + 1), st.ub)}

\* lines 115-121: -fsyntax-only becomes -c
ReplaceSyntaxOnly(st, asserts) ==
    LET args == st.args
        syntaxOnlyPos == Find(args, SyntaxOnly)
    IN  IF syntaxOnlyPos = Len(args) + 1
        THEN \* *end() = "-c"
             InvalidEdit(asserts, {args}, st.ub)
        ELSE {Going(Assign(args, syntaxOnlyPos, "-c"), st.ub)}

\* line 125
AppendGModules(st) ==
    Going(Append(st.args, "-gmodules"), st.ub)

\* The edits run one after another; a run that stopped stays stopped.
getClangDepScanningInvocationArguments(driverArgs, opts, src, asserts) ==
    LET commandLineArgs == addSearchPathInvocationArguments(driverArgs, opts)
        o1 == SubstituteSourceFile(Going(commandLineArgs, FALSE), src, asserts)
        o2 == UNION {IF o.status = "ok" THEN DropModuleFormat(o, asserts)
                     ELSE {o} : o \in o1}
        o3 == UNION {IF o.status = "ok" THEN ReplaceSyntaxOnly(o, asserts)
                     ELSE {o} : o \in o2}
    IN  {IF o.status = "ok" THEN AppendGModules(o) ELSE o : o \in o3}

-----------------------------------------------------------------------------
(* computeClangWorkingDirectory                                            *)
(*                                                                         *)
(* Positions are reverse-iterator positions: r = 1 is rbegin() (the last   *)
(* element), r = Len + 1 is rend().  *(r) is the element Len + 1 - r of    *)
(* the vector, and r - 1 moves towards the end of the vector.  An outcome  *)
(* is [status, dir, diags]: "ok" with the directory, "error" for           *)
(* std::nullopt, "crash" when the out-of-bounds read faults.               *)

CurrentWorkingDirectory == "/cwd"
MissingWorkingDirectory ==
    [id |-> "clang_dependency_scan_error",
     text |-> "Missing '-working-directory' argument"]

\* std::find(rbegin, rend, x)
RFind(s, x) ==
    IF \E r \in 1..Len(s) : s[Len(s) + 1 - r] = x
    THEN CHOOSE r \in 1..Len(s) :
            /\ s[Len(s) + 1 - r] = x
            /\ \A q \in 1..(r - 1) : s[Len(s) + 1 - q] # x
    ELSE Len(s) + 1

\* *(it) for a reverse position; position 0 is before rbegin(): the read is
\* one past the end of the vector, undefined behaviour that faults or yields
\* whatever bytes lie there.
RDeref(s, r) ==
    IF r \in 1..Len(s)
    THEN {[status |-> "ok", dir |-> s[Len(s) + 1 - r], diags |-> <<>>]}
    ELSE {[status |-> "crash", dir |-> "", diags |-> <<>>],
          [status |-> "ok", dir |-> "", diags |-> <<>>],
          [status |-> "ok", dir |-> "<garbage>", diags |-> <<>>]}

computeClangWorkingDirectory(commandLineArgs) ==
    LET rend == Len(commandLineArgs) + 1
        clangWorkingDirPos == RFind(commandLineArgs, WorkingDirectoryFlag)
    IN  IF clangWorkingDirPos = rend
        THEN {[status |-> "ok", dir |-> CurrentWorkingDirectory, diags |-> <<>>]}
        ELSE IF clangWorkingDirPos - 1 = rend
        THEN {[status |-> "error", dir |-> "",
               diags |-> <<MissingWorkingDirectory>>]}
        ELSE RDeref(commandLineArgs, clangWorkingDirPos - 1)

-----------------------------------------------------------------------------
(* ArgSpec: the two functions applied to argument lists drawn from a       *)
(* bounded set.                                                            *)

ArgTokens ==
    {Sentinel, "-fmodule-format=raw", SyntaxOnly, "-Xclang",
     WorkingDirectoryFlag, "/tmp/build"}

RECURSIVE SeqsUpTo(_, _)
SeqsUpTo(S, n) ==
    IF n = 0 THEN {<<>>}
    ELSE LET shorter == SeqsUpTo(S, n - 1)
         IN  shorter \cup {Append(s, x) : s \in shorter, x \in S}

NoSearchPaths ==
    [FrameworkSearchPaths |-> <<>>, ImportSearchPaths |-> <<>>,
     ScannerPrefixMapper |-> <<>>]

SearchPathChoices ==
    {NoSearchPaths,
     [FrameworkSearchPaths |->
         <<[Path |-> "/Frameworks", IsSystem |-> TRUE],
           [Path |-> "/Local", IsSystem |-> FALSE]>>,
      ImportSearchPaths |-> <<"/usr/include/foo">>,
      ScannerPrefixMapper |-> <<"/src=/^src">>]}

SourceChoices == {NoSource, "Input.h"}

ArgInit ==
    /\ assertsEnabled \in BOOLEAN
    /\ inputArgs \in SeqsUpTo(ArgTokens, MaxArgs)
    /\ searchPathOpts \in SearchPathChoices
    /\ sourceFileName \in SourceChoices
    /\ invocation = NotCalled
    /\ workingDir = NotCalled
    /\ diags = <<>>
    /\ bridging = NotCalled
    /\ cache = <<>>
    /\ seen = {}
    /\ extended = {}
    /\ lastCall = NotCalled
    /\ pc = <<>>
    /\ local = <<>>
    /\ recordCount = <<>>
    /\ lookup = NotCalled
    /\ outputs = {}

BuildInvocation ==
    /\ invocation = NotCalled
    /\ invocation' \in getClangDepScanningInvocationArguments(
                          inputArgs, searchPathOpts, sourceFileName,
                          assertsEnabled)
    /\ UNCHANGED <<assertsEnabled, inputArgs, searchPathOpts, sourceFileName,
                   workingDir, diags, bridging, cacheVars, concVars, pathVars>>

ResolveWorkingDirectory ==
    /\ workingDir = NotCalled
    /\ \E o \in computeClangWorkingDirectory(inputArgs) :
          /\ workingDir' = [status |-> o.status, dir |-> o.dir]
          /\ diags' = o.diags
    /\ UNCHANGED <<assertsEnabled, inputArgs, searchPathOpts, sourceFileName,
                   invocation, bridging, cacheVars, concVars, pathVars>>

ArgNext == BuildInvocation \/ ResolveWorkingDirectory

ArgSpec == ArgInit /\ [][ArgNext]_vars

-----------------------------------------------------------------------------
(* moduleCacheRelativeLookupModuleOutput                                   *)

\* The last index of character ch in str, or 0.
LastIndexOf(str, ch) ==
    LET at == {i \in 1..Len(str) : SubSeq(str, i, i) = ch}
    IN  IF at = {} THEN 0 ELSE CHOOSE i \in at : \A j \in at : j <= i

\* llvm::sys::path::append of one relative component
PathAppend(path, component) ==
    IF path = "" \/ SubSeq(path, Len(path), Len(path)) = "/"
    THEN path \o component
    ELSE path \o "/" \o component

\* llvm::sys::path::replace_extension: the text from the last '.' of the
\* file name on is dropped, then '.' and the extension are appended.
ReplaceExtension(path, extension) ==
    LET pos == LastIndexOf(path, ".")
        filenamePos == LastIndexOf(path, "/") + 1
        stem == IF pos # 0 /\ pos >= filenamePos
                THEN SubSeq(path, 1, pos - 1) ELSE path
    IN  stem \o "." \o extension

\* getExtension(file_types::...)
ExtensionOf(MOK) ==
    CASE MOK = "ModuleFile" -> "pcm"
      [] MOK = "DependencyFile" -> "d"
      [] MOK = "DiagnosticSerializationFile" -> "dia"

moduleCacheRelativeLookupModuleOutput(MID, MOK, moduleCachePath) ==
    LET outputPath ==
            PathAppend(moduleCachePath, MID.ModuleName \o "-" \o MID.ContextHash)
    IN  IF MOK = "DependencyTargets"
        THEN MID.ModuleName \o "-" \o MID.ContextHash
        ELSE ReplaceExtension(outputPath, ExtensionOf(MOK))

\* PathSpec: the function applied, one ModuleOutputKind at a time, to a
\* module ID and a module cache path drawn from small sets.
LookupNames == {"Foo", "A", "Foo.Bar"}
LookupHashes == {"abc123", "h1"}
LookupRoots == {"", "/cache", "/cache/", "/mod.cache"}
ModuleOutputKinds ==
    {"ModuleFile", "DependencyFile", "DependencyTargets",
     "DiagnosticSerializationFile"}

PathInit ==
    /\ assertsEnabled = TRUE
    /\ inputArgs = <<>>
    /\ searchPathOpts = NoSearchPaths
    /\ sourceFileName = NoSource
    /\ invocation = NotCalled
    /\ workingDir = NotCalled
    /\ diags = <<>>
    /\ bridging = NotCalled
    /\ cache = <<>>
    /\ seen = {}
    /\ extended = {}
    /\ lastCall = NotCalled
    /\ pc = <<>>
    /\ local = <<>>
    /\ recordCount = <<>>
    /\ lookup \in {[MID |-> [ModuleName |-> name, ContextHash |-> hash],
                    moduleCachePath |-> root] :
                      name \in LookupNames, hash \in LookupHashes,
                      root \in LookupRoots}
    /\ outputs = {}

LookupModuleOutput ==
    /\ \E MOK \in ModuleOutputKinds :
          /\ \A o \in outputs : o.kind # MOK
          /\ outputs' = outputs \cup
                {[kind |-> MOK,
                  path |-> moduleCacheRelativeLookupModuleOutput(
                               lookup.MID, MOK, lookup.moduleCachePath)]}
    /\ UNCHANGED <<assertsEnabled, argVars, diags, bridging, cacheVars,
                   concVars, lookup>>

PathNext == LookupModuleOutput

PathSpec == PathInit /\ [][PathNext]_vars

-----------------------------------------------------------------------------
(* The compilation context and the Clang invocation round trip.            *)

\* ctx.SearchPathOpts.VFSOverlayFiles
ctxVFSOverlayFiles == <<"/src/host/overlay.yaml">>
\* ctx.CASOpts.enumerateCASConfigurationFlags
ctxCASConfigurationFlags == <<"-cas-path", "/cas">>
\* ctx.LangOpts.EffectiveLanguageVersion.asAPINotesVersionString()
ctxAPINotesVersion == "5"
\* cache.getModuleOutputPath() / getModuleCachePathFromClang
ModuleOutputPath == "/cache"

\* A RemapPathCallback: NoCallback is the empty std::function, otherwise a
\* prefix map [from, to].
NoCallback == [from |-> "", to |-> ""]
ScanServiceRemap == [from |-> "/src", to |-> "/^src"]

ApplyCallback(callback, path) ==
    IF startswith(path, callback.from)
    THEN callback.to \o SubSeq(path, Len(callback.from) + 1, Len(path))
    ELSE path

\* lines 136-140
remapPath(callback, path) ==
    IF callback # NoCallback THEN ApplyCallback(callback, path) ELSE path

\* clang::CompilerInvocation::CreateFromArgs: the header-search overlay files
\* are the arguments that follow -ivfsoverlay.
ParsedVFSOverlayFiles(buildArgs) ==
    Flatten([i \in 1..Len(buildArgs) |->
                IF i > 1 /\ buildArgs[i - 1] = "-ivfsoverlay"
                THEN <<buildArgs[i]>> ELSE <<>>])

\* ModuleCacheKeys.clear(), PathPrefixMappings.clear(), generateCC1CommandLine:
\* the arguments come back without the cache keys and the prefix mappings.
GenerateCC1CommandLine(buildArgs) ==
    Flatten([i \in 1..Len(buildArgs) |->
                IF \/ startswith(buildArgs[i], "-fmodule-file-cache-key=")
                   \/ startswith(buildArgs[i], "-fdepscan-prefix-map=")
                THEN <<>> ELSE <<buildArgs[i]>>])

\* addClangArg over a list
XccWrapped(clangArgs) ==
    Flatten([i \in 1..Len(clangArgs) |-> <<"-Xcc", clangArgs[i]>>])

-----------------------------------------------------------------------------
(* ModuleDependencyInfo (swift/AST/ModuleDependencies.h).                  *)

ClangKind == "Clang"
NoID == ""

ModuleDependencyID(name, kind) == [ModuleName |-> name, Kind |-> kind]

forClangModule(pcmPath, moduleMapFile, contextHash, swiftArgs, fileDeps, capturedPCMArgs, RootID, IncludeTree, moduleCacheKey) ==
    [kind |-> ClangKind,
     pcmOutputPath |-> pcmPath,
     moduleMapFile |-> moduleMapFile,
     contextHash |-> contextHash,
     buildCommandLine |-> swiftArgs,
     fileDependencies |-> fileDeps,
     capturedPCMArgs |-> capturedPCMArgs,
     CASFileSystemRootID |-> RootID,
     CASClangIncludeTreeRootID |-> IncludeTree,
     moduleCacheKey |-> moduleCacheKey,
     moduleImports |-> <<>>,
     moduleDependencies |-> <<>>,
     resolved |-> FALSE]

\* addModuleImport(module, &alreadyAddedModules): st is [info, alreadyAdded]
addModuleImport(st, moduleName) ==
    IF moduleName \in st.alreadyAdded THEN st
    ELSE [info |-> [st.info EXCEPT !.moduleImports = Append(@, moduleName)],
          alreadyAdded |-> st.alreadyAdded \cup {moduleName}]

addModuleDependency(st, dependencyID) ==
    [st EXCEPT !.info.moduleDependencies = Append(@, dependencyID)]

setIsResolved(st, isResolved) ==
    [st EXCEPT !.info.resolved = isResolved]

-----------------------------------------------------------------------------
(* bridgeClangModuleDependencies                                           *)

\* lines 143-147
capturedPCMArgs ==
    <<"-Xcc", "-fapinotes-swift-version=" \o ctxAPINotesVersion>>

\* lines 214-221: the scanner's overlay files the host does not list itself
ScannerOverlayArgs(clangModuleDep) ==
    LET overlays == ParsedVFSOverlayFiles(clangModuleDep.BuildArguments)
    IN  Flatten([i \in 1..Len(overlays) |->
                    IF overlays[i] \in Elems(ctxVFSOverlayFiles) THEN <<>>
                    ELSE <<"-vfsoverlay", overlays[i]>>])

\* lines 156-252 with the -Xcc arguments of line 230 pushed before the loop
\* of lines 216-221
BridgedSwiftArgsXccFirst(clangModuleDep, moduleOutputPath, callback) ==
    LET pcmPath == moduleCacheRelativeLookupModuleOutput(
                        clangModuleDep.ID, "ModuleFile", moduleOutputPath)
    IN  <<"-frontend", "-emit-pcm", "-module-name",
          clangModuleDep.ID.ModuleName, "-o", pcmPath,
          "-direct-clang-cc1-module-build",
          remapPath(callback, clangModuleDep.ClangModuleMapFile)>>
        \o Flatten([i \in 1..Len(ctxVFSOverlayFiles) |->
                       <<"-vfsoverlay", remapPath(callback, ctxVFSOverlayFiles[i])>>])
        \o XccWrapped(GenerateCC1CommandLine(clangModuleDep.BuildArguments))
        \o ScannerOverlayArgs(clangModuleDep)
        \o ctxCASConfigurationFlags
        \o (IF clangModuleDep.CASFileSystemRootID # NoID
            THEN <<"-no-clang-include-tree", "-cas-fs",
                   clangModuleDep.CASFileSystemRootID>>
            ELSE <<>>)
        \o (IF clangModuleDep.IncludeTreeID # NoID
            THEN <<"-clang-include-tree-root", clangModuleDep.IncludeTreeID>>
            ELSE <<>>)

\* lines 156-252: the swift frontend arguments of one module
BridgedSwiftArgs(clangModuleDep, moduleOutputPath, callback) ==
    LET pcmPath == moduleCacheRelativeLookupModuleOutput(
                        clangModuleDep.ID, "ModuleFile", moduleOutputPath)
    IN  <<"-frontend", "-emit-pcm", "-module-name",
          clangModuleDep.ID.ModuleName, "-o", pcmPath,
          "-direct-clang-cc1-module-build",
          remapPath(callback, clangModuleDep.ClangModuleMapFile)>>
        \o Flatten([i \in 1..Len(ctxVFSOverlayFiles) |->
                       <<"-vfsoverlay", remapPath(callback, ctxVFSOverlayFiles[i])>>])
        \o ScannerOverlayArgs(clangModuleDep)
        \o XccWrapped(GenerateCC1CommandLine(clangModuleDep.BuildArguments))
        \o ctxCASConfigurationFlags
        \o (IF clangModuleDep.CASFileSystemRootID # NoID
            THEN <<"-no-clang-include-tree", "-cas-fs",
                   clangModuleDep.CASFileSystemRootID>>
            ELSE <<>>)
        \o (IF clangModuleDep.IncludeTreeID # NoID
            THEN <<"-clang-include-tree-root", clangModuleDep.IncludeTreeID>>
            ELSE <<>>)

\* lines 150-259: the record of one module as forClangModule creates it,
\* with the empty alreadyAddedModules set of line 255
BeginModule(clangModuleDep, moduleOutputPath, callback) ==
    [info |-> forClangModule(
                 moduleCacheRelativeLookupModuleOutput(
                     clangModuleDep.ID, "ModuleFile", moduleOutputPath),
                 clangModuleDep.ClangModuleMapFile,
                 clangModuleDep.ID.ContextHash,
                 BridgedSwiftArgs(clangModuleDep, moduleOutputPath, callback),
                 clangModuleDep.FileDeps,
                 capturedPCMArgs,
                 clangModuleDep.CASFileSystemRootID,
                 clangModuleDep.IncludeTreeID,
                 ""),
     alreadyAdded |-> {}]

\* lines 260-265: one turn of the loop over ClangModuleDeps
AddClangModuleDep(st, moduleName) ==
    addModuleDependency(addModuleImport(st, moduleName.ModuleName),
                        ModuleDependencyID(moduleName.ModuleName, ClangKind))

\* the first n turns of the loop
RECURSIVE AddClangModuleDeps(_, _, _)
AddClangModuleDeps(st, deps, n) ==
    IF n = 0 THEN st
    ELSE AddClangModuleDep(AddClangModuleDeps(st, deps, n - 1), deps[n])

\* lines 268-269: the key the record is pushed under
BridgedIDWrongKind(clangModuleDep) ==
    ModuleDependencyID(clangModuleDep.ID.ModuleName, "SwiftInterface")

BridgedIDByContextHash(clangModuleDep) ==
    ModuleDependencyID(clangModuleDep.ID.ContextHash, ClangKind)

BridgedID(clangModuleDep) ==
    ModuleDependencyID(clangModuleDep.ID.ModuleName, ClangKind)

\* lines 266-270: the pair pushed onto the result
FinishModule(clangModuleDep, st) ==
    [id |-> BridgedID(clangModuleDep),
     info |-> setIsResolved(st, TRUE).info]

\* one pass of the loop body, lines 149-271
BridgeModule(clangModuleDep, moduleOutputPath, callback) ==
    FinishModule(
        clangModuleDep,
        AddClangModuleDeps(
            BeginModule(clangModuleDep, moduleOutputPath, callback),
            clangModuleDep.ClangModuleDeps,
            Len(clangModuleDep.ClangModuleDeps)))

-----------------------------------------------------------------------------
(* The external scanner (clang::tooling::dependencies::DependencyScanningTool): *)
(* a black box that answers with an error or with any module graph.        *)

\* most modules in a scanner-reported module graph
MaxGraph == 2

ModuleID(name, hash) == [ModuleName |-> name, ContextHash |-> hash]

RawModule(id, moduleDeps, buildArgs, rootID, treeID) ==
    [ID |-> id,
     ClangModuleMapFile |-> "/src/" \o id.ModuleName \o "/module.modulemap",
     FileDeps |-> <<"/src/" \o id.ModuleName \o "/" \o id.ModuleName \o ".h">>,
     ClangModuleDeps |-> moduleDeps,
     BuildArguments |-> buildArgs,
     CASFileSystemRootID |-> rootID,
     IncludeTreeID |-> treeID]

RawModules ==
    {RawModule(ModuleID("A", "h1"),
               <<ModuleID("B", "h1"), ModuleID("C", "h1")>>,
               <<"-cc1", "-ivfsoverlay", "/src/scan/overlay.yaml",
                 "-fmodule-file-cache-key=k">>,
               "llvmcas://root", NoID),
     RawModule(ModuleID("A", "h2"), <<>>,
               <<"-cc1", "-ivfsoverlay", "/src/host/overlay.yaml">>,
               NoID, "llvmcas://tree"),
     RawModule(ModuleID("B", "h1"), <<>>, <<"-cc1">>, NoID, NoID)}

ModuleGraphs == SeqsUpTo(RawModules, MaxGraph)

\* BridgeModule, tabulated over the modules the scanner reports and the two
\* callbacks in use.
BridgedModules ==
    [x \in RawModules \X {ModuleOutputPath} \X {NoCallback, ScanServiceRemap} |->
        BridgeModule(x[1], x[2], x[3])]

\* lines 130-273: the loop over the module graph
bridgeClangModuleDependencies(clangDependencies, moduleOutputPath, callback) ==
    [i \in 1..Len(clangDependencies) |->
        BridgedModules[<<clangDependencies[i], moduleOutputPath, callback>>]]

ModuleNames == {"A", "B"}

\* llvm::toString of the scanner's error
NotFoundMessage(name) == "fatal error: module '" \o name \o "' not found"

ScannerErrors ==
    {NotFoundMessage("A"), NotFoundMessage("B"), NotFoundMessage("AB"),
     "error: unknown argument",
     "error: unknown argument\n" \o NotFoundMessage("A")}

\* std::string::find(pattern) # npos
Contains(str, pattern) ==
    \E i \in 1..(Len(str) - Len(pattern) + 1) :
        SubSeq(str, i, i + Len(pattern) - 1) = pattern

-----------------------------------------------------------------------------
(* ModSpec: getModuleDependencies, with the bridging loop taken one step   *)
(* at a time.                                                              *)

\* ClangImporter::getClangDriverArguments(ctx) of a host compilation
HostDriverArgs ==
    {<<"-Xclang", "-fmodule-format=raw", SyntaxOnly, Sentinel>>,
     <<WorkingDirectoryFlag, "/tmp/build", "-Xclang", "-fmodule-format=raw",
       SyntaxOnly, Sentinel>>}

HostSearchPaths ==
    [FrameworkSearchPaths |-> <<[Path |-> "/Frameworks", IsSystem |-> TRUE]>>,
     ImportSearchPaths |-> <<"/usr/include/foo">>,
     ScannerPrefixMapper |-> <<>>]

NoModule == [status |-> "none"]
NoError == ""

ScanError(text) ==
    [id |-> "clang_dependency_scan_error", text |-> text]

\* lines 410-411: the "module 'foo' not found" error is not reported
ShouldDiagnoseAnyNotFound(errorStr, moduleName) ==
    ~Contains(errorStr, "not found")

ShouldDiagnose(errorStr, moduleName) ==
    ~Contains(errorStr, NotFoundMessage(moduleName))

\* line 260: the loop over ClangModuleDeps has run over all of them
LoopDoneOneEarly(depIndex, moduleDeps) ==
    depIndex >= Len(moduleDeps) - 1

LoopDone(depIndex, moduleDeps) ==
    depIndex = Len(moduleDeps)

\* getModuleDependencies' mapper callback, lines 418-422, with a null mapper
ModuleMapper == NoCallback

Returned(moduleName, errorStr, graph, result) ==
    [status |-> "returned", moduleName |-> moduleName, error |-> errorStr,
     graph |-> graph, index |-> Len(graph) + 1, depIndex |-> 0,
     current |-> NoModule, result |-> result]

ModInit ==
    /\ assertsEnabled \in BOOLEAN
    /\ inputArgs \in HostDriverArgs
    /\ searchPathOpts = HostSearchPaths
    /\ sourceFileName = NoSource
    /\ invocation = NotCalled
    /\ workingDir = NotCalled
    /\ diags = <<>>
    /\ bridging = NotCalled
    /\ cache = <<>>
    /\ seen = {}
    /\ extended = {}
    /\ lastCall = NotCalled
    /\ pc = <<>>
    /\ local = <<>>
    /\ recordCount = <<>>
    /\ lookup = NotCalled
    /\ outputs = {}

\* lines 383-417: up to the scanner's answer.  An answer with an error ends
\* the call with an empty vector; a module graph starts the bridging loop.
GetModuleDependencies ==
    /\ bridging.status \in {"not-called", "returned"}
    /\ \E moduleName \in ModuleNames :
       \E args \in getClangDepScanningInvocationArguments(
                       inputArgs, searchPathOpts, NoSource, assertsEnabled) :
       \E wd \in computeClangWorkingDirectory(args.args) :
          /\ invocation' = args
          /\ workingDir' = [status |-> wd.status, dir |-> wd.dir]
          /\ IF args.status # "ok" \/ wd.status = "crash"
             THEN /\ bridging' = [status |-> "stopped"]
                  /\ diags' = <<>>
             ELSE IF wd.status = "error"
             THEN /\ bridging' = Returned(moduleName, NoError, <<>>, <<>>)
                  /\ diags' = wd.diags \o <<MissingWorkingDirectory>>
             ELSE \/ \E errorStr \in ScannerErrors :
                       /\ bridging' = Returned(moduleName, errorStr, <<>>, <<>>)
                       /\ diags' = IF ShouldDiagnose(errorStr, moduleName)
                                   THEN <<ScanError(errorStr)>> ELSE <<>>
                  \/ \E graph \in ModuleGraphs :
                       /\ bridging' = [status |-> "bridging",
                                       moduleName |-> moduleName,
                                       error |-> NoError,
                                       graph |-> graph, index |-> 1,
                                       depIndex |-> 0, current |-> NoModule,
                                       result |-> <<>>]
                       /\ diags' = <<>>
    /\ UNCHANGED <<assertsEnabled, inputArgs, searchPathOpts, sourceFileName,
                   cacheVars, concVars, pathVars>>

\* lines 149-259
BridgeBeginModule ==
    /\ bridging.status = "bridging"
    /\ bridging.index <= Len(bridging.graph)
    /\ bridging.current = NoModule
    /\ bridging' = [bridging EXCEPT
                       !.current = BeginModule(bridging.graph[bridging.index],
                                               ModuleOutputPath, ModuleMapper),
                       !.depIndex = 0]
    /\ UNCHANGED <<assertsEnabled, argVars, diags, cacheVars, concVars, pathVars>>

\* lines 260-265
BridgeAddDependency ==
    /\ bridging.status = "bridging"
    /\ bridging.current # NoModule
    /\ LET deps == bridging.graph[bridging.index].ClangModuleDeps
       IN  /\ ~LoopDone(bridging.depIndex, deps)
           /\ bridging.depIndex < Len(deps)
           /\ bridging' = [bridging EXCEPT
                              !.current = AddClangModuleDep(
                                              @, deps[bridging.depIndex + 1]),
                              !.depIndex = @ + 1]
    /\ UNCHANGED <<assertsEnabled, argVars, diags, cacheVars, concVars, pathVars>>

\* lines 266-270
BridgeFinishModule ==
    /\ bridging.status = "bridging"
    /\ bridging.current # NoModule
    /\ LoopDone(bridging.depIndex,
                bridging.graph[bridging.index].ClangModuleDeps)
    /\ bridging' = [bridging EXCEPT
                       !.result = Append(@, FinishModule(
                                                bridging.graph[bridging.index],
                                                bridging.current)),
                       !.current = NoModule,
                       !.index = @ + 1]
    /\ UNCHANGED <<assertsEnabled, argVars, diags, cacheVars, concVars, pathVars>>

\* line 272
BridgeReturn ==
    /\ bridging.status = "bridging"
    /\ bridging.index > Len(bridging.graph)
    /\ bridging.current = NoModule
    /\ bridging' = [bridging EXCEPT !.status = "returned"]
    /\ UNCHANGED <<assertsEnabled, argVars, diags, cacheVars, concVars, pathVars>>

ModNext ==
    \/ GetModuleDependencies
    \/ BridgeBeginModule
    \/ BridgeAddDependency
    \/ BridgeFinishModule
    \/ BridgeReturn

ModSpec == ModInit /\ [][ModNext]_vars

-----------------------------------------------------------------------------
(* ModuleDependenciesCache (swift/AST/ModuleDependencies.h): the entries   *)
(* are kept as a sequence of [id, info]; every operation is one atomic     *)
(* access, as section 5 of the specification requires.                     *)

NotFound == [kind |-> "none"]

EntryIndex(c, id) ==
    FirstOf({i \in 1..Len(c) : c[i].id = id}, 0)

hasDependency(c, id) == \E i \in 1..Len(c) : c[i].id = id

\* findDependency: the record of id, or NotFound for std::nullopt
findDependency(c, id) ==
    IF hasDependency(c, id) THEN c[EntryIndex(c, id)].info ELSE NotFound

\* recordDependencies: a module without a record gets the bridged one; a
\* Clang module is then marked as already seen.  st is [cache, seen].
recordDependency(st, dep) ==
    [cache |-> IF hasDependency(st.cache, dep.id) THEN st.cache
               ELSE Append(st.cache, dep),
     seen |-> IF dep.info.kind = ClangKind
              THEN st.seen \cup {[ModuleName |-> dep.id.ModuleName,
                                  ContextHash |-> dep.info.contextHash]}
              ELSE st.seen]

RECURSIVE recordDependencies(_, _)
recordDependencies(st, moduleDependencies) ==
    IF moduleDependencies = <<>> THEN st
    ELSE recordDependencies(recordDependency(st, Head(moduleDependencies)),
                            Tail(moduleDependencies))

\* updateDependency: the record of id is replaced
updateDependency(c, id, info) ==
    [i \in 1..Len(c) |-> IF c[i].id = id THEN [id |-> id, info |-> info]
                         ELSE c[i]]

\* The record of a Swift module that names a bridging header.
SwiftModuleInfo(kind, bridgingHeader) ==
    [kind |-> kind,
     bridgingHeader |-> bridgingHeader,
     bridgingSourceFiles |-> <<>>,
     bridgingModuleDependencies |-> <<>>,
     bridgingHeaderIncludeTree |-> NoID,
     bridgingHeaderBuildCommandLine |-> <<>>]

\* addBridgingSourceFile
addBridgingSourceFile(info, fileDep) ==
    [info EXCEPT !.bridgingSourceFiles = Append(@, fileDep)]

\* addBridgingModuleDependency(module, alreadyAddedModules): st is
\* [info, alreadyAdded]
addBridgingModuleDependency(st, moduleName) ==
    IF moduleName \in st.alreadyAdded THEN st
    ELSE [info |-> [st.info EXCEPT
                       !.bridgingModuleDependencies = Append(@, moduleName)],
          alreadyAdded |-> st.alreadyAdded \cup {moduleName}]

\* addBridgingHeaderIncludeTree
addBridgingHeaderIncludeTree(info, treeID) ==
    [info EXCEPT !.bridgingHeaderIncludeTree = treeID]

\* updateBridgingHeaderCommandLine
updateBridgingHeaderCommandLine(info, swiftArgs) ==
    [info EXCEPT !.bridgingHeaderBuildCommandLine = swiftArgs]

-----------------------------------------------------------------------------
(* addBridgingHeaderDependencies                                           *)

SwiftModules ==
    {ModuleDependencyID("Main", "SwiftSource"),
     ModuleDependencyID("Lib", "SwiftInterface")}

BridgingHeaderOf(id) == "/src/" \o id.ModuleName \o "-Bridging.h"

InitialCache ==
    <<[id |-> ModuleDependencyID("Main", "SwiftSource"),
       info |-> SwiftModuleInfo("SwiftSource",
                    BridgingHeaderOf(ModuleDependencyID("Main", "SwiftSource")))],
      [id |-> ModuleDependencyID("Lib", "SwiftInterface"),
       info |-> SwiftModuleInfo("SwiftInterface",
                    BridgingHeaderOf(ModuleDependencyID("Lib", "SwiftInterface")))]>>

\* TranslationUnitDeps as the scanner reports them
TranslationUnitDeps(graph, fileDeps, moduleDeps, treeID) ==
    [ModuleGraph |-> graph,
     FileDeps |-> fileDeps,
     ClangModuleDeps |-> moduleDeps,
     IncludeTreeID |-> treeID,
     CASFileSystemRootID |-> NoID,
     Commands |-> <<[Arguments |-> <<"-cc1", "-fmodule-file-cache-key=k",
                                     "-emit-pch">>]>>]

\* The file dependencies, module dependencies and include tree a scan of a
\* bridging header may report.
TranslationUnitShapes ==
    {<<<<>>, <<>>, NoID>>,
     <<<<"/src/Bridging.h">>, <<>>, "llvmcas://tu">>,
     <<<<>>, <<ModuleID("A", "h1")>>, NoID>>,
     <<<<"/src/Bridging.h", "/src/B/B.h">>,
       <<ModuleID("A", "h1"), ModuleID("B", "h1"), ModuleID("A", "h1")>>, NoID>>}

\* The scanner reports the modules the header imports directly together
\* with the module graph they are taken from; there is no graph without an
\* import.
GraphOnlyWithImports(graph, moduleDeps) ==
    moduleDeps = <<>> => graph = <<>>

TranslationUnitResults ==
    {TranslationUnitDeps(x[1], x[2][1], x[2][2], x[2][3]) :
        x \in {y \in ModuleGraphs \X TranslationUnitShapes :
                  GraphOnlyWithImports(y[1], y[2][2])}}

\* Every direct import is a module of the graph, unless it is one of the
\* already-seen modules handed to the scanner, which the scanner may leave
\* out of the graph.
DirectImportsInGraph(tu, alreadySeen) ==
    \A i \in 1..Len(tu.ClangModuleDeps) :
        \/ \E j \in 1..Len(tu.ModuleGraph) :
              tu.ModuleGraph[j].ID = tu.ClangModuleDeps[i]
        \/ tu.ClangModuleDeps[i] \in alreadySeen

\* lines 434-447: the bridging header dependencies are recorded already
AlreadyRecorded(targetModule) ==
    IF targetModule.kind = "SwiftInterface"
    THEN \/ targetModule.bridgingSourceFiles # <<>>
         \/ targetModule.bridgingModuleDependencies # <<>>
    ELSE IF targetModule.kind = "SwiftSource"
    THEN \/ targetModule.bridgingSourceFiles # <<>>
         \/ targetModule.bridgingModuleDependencies # <<>>
    ELSE FALSE

\* lines 488-490
RECURSIVE AddBridgingSourceFiles(_, _)
AddBridgingSourceFiles(info, fileDeps) ==
    IF fileDeps = <<>> THEN info
    ELSE AddBridgingSourceFiles(addBridgingSourceFile(info, Head(fileDeps)),
                                Tail(fileDeps))

\* lines 493-496
RECURSIVE AddBridgingModuleDependencies(_, _)
AddBridgingModuleDependencies(st, moduleDeps) ==
    IF moduleDeps = <<>> THEN st
    ELSE AddBridgingModuleDependencies(
             addBridgingModuleDependency(st, Head(moduleDeps).ModuleName),
             Tail(moduleDeps))

\* lines 488-499, on the local copy targetModule
MergeBridgingDependencies(targetModule, tu) ==
    LET withFiles == AddBridgingSourceFiles(targetModule, tu.FileDeps)
        withModules == AddBridgingModuleDependencies(
                           [info |-> withFiles, alreadyAdded |-> {}],
                           tu.ClangModuleDeps).info
    IN  IF tu.IncludeTreeID # NoID
        THEN addBridgingHeaderIncludeTree(withModules, tu.IncludeTreeID)
        ELSE withModules

\* lines 275-346
recordBridgingHeaderOptions(MDI, deps) ==
    updateBridgingHeaderCommandLine(
        MDI,
        <<"-frontend", "-emit-pch", "-direct-clang-cc1-module-build">>
            \o XccWrapped(GenerateCC1CommandLine(deps.Commands[1].Arguments))
            \o ctxCASConfigurationFlags
            \o (IF deps.IncludeTreeID # NoID
                THEN <<"-clang-include-tree-root", deps.IncludeTreeID>>
                ELSE <<>>)
            \o (IF deps.CASFileSystemRootID # NoID
                THEN <<"-no-clang-include-tree", "-cas-fs",
                       deps.CASFileSystemRootID>>
                ELSE <<>>))

\* lines 480-486 left out: nothing is recorded ahead of updateDependency
RecordBridgedDependenciesSkipped(c, sn, tu) ==
    [cache |-> c, seen |-> sn]

\* lines 480-486
RecordBridgedDependencies(c, sn, tu) ==
    recordDependencies(
        [cache |-> c, seen |-> sn],
        bridgeClangModuleDependencies(tu.ModuleGraph, ModuleOutputPath,
                                      ScanServiceRemap))

\* lines 456-460 and 474-478: the failure returns
FailedWithPartialRecord(c, sn, moduleID, targetModule) ==
    [ret |-> TRUE,
     cache |-> updateDependency(
                   c, moduleID,
                   updateBridgingHeaderCommandLine(targetModule, <<"-frontend">>)),
     seen |-> sn]

Failed(c, sn, moduleID, targetModule) ==
    [ret |-> TRUE, cache |-> c, seen |-> sn]

\* lines 488-506: the local copy is extended and written back
UpdateTargetModule(recorded, moduleID, targetModule, tu) ==
    [ret |-> FALSE,
     cache |-> updateDependency(
                   recorded.cache, moduleID,
                   recordBridgingHeaderOptions(
                       MergeBridgingDependencies(targetModule, tu), tu)),
     seen |-> recorded.seen]

\* lines 480-506: the scan succeeded
Succeeded(c, sn, moduleID, targetModule, tu) ==
    UpdateTargetModule(RecordBridgedDependencies(c, sn, tu), moduleID,
                       targetModule, tu)

\* The scanner's answers: an error, or the dependencies of the header.
ScanFailure == [status |-> "error"]
ScanAnswers ==
    {ScanFailure} \cup {[status |-> "ok", deps |-> tu] : tu \in TranslationUnitResults}

\* getTranslationUnitDependencies, handed the already-seen modules
ScannerAnswers(alreadySeen) ==
    {answer \in ScanAnswers :
        answer.status = "ok" => DirectImportsInGraph(answer.deps, alreadySeen)}

\* Whether an element occurs twice in a sequence.
HasDuplicates(s) == \E i, j \in 1..Len(s) : i < j /\ s[i] = s[j]

\* The module names of a module graph, and the IDs of its bridged vector.
GraphNames(graph) == [i \in 1..Len(graph) |-> graph[i].ID.ModuleName]
BridgedIDs(graph) ==
    [i \in 1..Len(graph) |->
        BridgedModules[<<graph[i], ModuleOutputPath, ScanServiceRemap>>].id]

\* What one call did: the return value, whether the scanner was invoked and
\* with an empty already-seen set or not, whether the cache differs after
\* the call, whether an earlier call on the module had succeeded, the size
\* of the module graph, and whether the module graph / the bridged vector
\* held a name / an ID twice.
CallRecord(moduleID, out, scanned, answer) ==
    [status |-> "returned",
     ret |-> out.ret,
     scanned |-> scanned,
     seenPassed |-> scanned /\ seen # {},
     changed |-> (out.cache # cache \/ out.seen # seen),
     repeat |-> moduleID \in extended,
     graphSize |-> IF scanned /\ answer.status = "ok"
                   THEN Len(answer.deps.ModuleGraph) ELSE 0,
     graphRepeatsName |->
        /\ scanned /\ answer.status = "ok"
        /\ HasDuplicates(GraphNames(answer.deps.ModuleGraph)),
     vectorRepeatsID |->
        /\ scanned /\ answer.status = "ok"
        /\ HasDuplicates(BridgedIDs(answer.deps.ModuleGraph))]

SpecInit ==
    /\ assertsEnabled = TRUE
    /\ inputArgs \in HostDriverArgs
    /\ searchPathOpts = HostSearchPaths
    /\ sourceFileName = NoSource
    /\ invocation = NotCalled
    /\ workingDir = NotCalled
    /\ diags = <<>>
    /\ bridging = NotCalled
    /\ cache = InitialCache
    /\ seen = {}
    /\ extended = {}
    /\ lastCall = NotCalled
    /\ pc = <<>>
    /\ local = <<>>
    /\ recordCount = <<>>
    /\ lookup = NotCalled
    /\ outputs = {}

\* The whole of addBridgingHeaderDependencies, lines 425-507.  targetModule
\* is the copy taken at line 432; out is what the call leaves behind.
AddBridgingHeaderDependencies ==
    /\ \E moduleID \in SwiftModules :
       \E targetModule \in {findDependency(cache, moduleID)} :
          /\ targetModule # NotFound
          /\ IF AlreadyRecorded(targetModule)
             THEN /\ lastCall' = CallRecord(
                         moduleID, [ret |-> FALSE, cache |-> cache, seen |-> seen],
                         FALSE, ScanFailure)
                  /\ extended' = extended \cup {moduleID}
                  /\ UNCHANGED <<cache, seen, diags>>
             ELSE \E args \in getClangDepScanningInvocationArguments(
                                  inputArgs, searchPathOpts,
                                  targetModule.bridgingHeader, assertsEnabled) :
                  \E wd \in computeClangWorkingDirectory(args.args) :
                     IF args.status # "ok" \/ wd.status = "crash"
                     THEN /\ lastCall' = [status |-> "stopped"]
                          /\ UNCHANGED <<cache, seen, diags, extended>>
                     ELSE IF wd.status = "error"
                     THEN \E out \in {Failed(cache, seen, moduleID, targetModule)} :
                             /\ lastCall' = CallRecord(moduleID, out, FALSE,
                                                       ScanFailure)
                             /\ cache' = out.cache
                             /\ seen' = out.seen
                             /\ diags' = wd.diags \o <<MissingWorkingDirectory>>
                             /\ UNCHANGED extended
                     ELSE \E answer \in ScannerAnswers(seen) :
                          \E out \in {IF answer.status = "error"
                                      THEN Failed(cache, seen, moduleID,
                                                  targetModule)
                                      ELSE Succeeded(cache, seen, moduleID,
                                                     targetModule, answer.deps)} :
                             /\ lastCall' = CallRecord(moduleID, out, TRUE,
                                                       answer)
                             /\ cache' = out.cache
                             /\ seen' = out.seen
                             /\ UNCHANGED diags
                             /\ extended' = IF out.ret THEN extended
                                            ELSE extended \cup {moduleID}
    /\ UNCHANGED <<assertsEnabled, argVars, bridging, concVars, pathVars>>

Next == AddBridgingHeaderDependencies

Spec == SpecInit /\ [][Next]_vars

-----------------------------------------------------------------------------
(* ConcSpec: one call of addBridgingHeaderDependencies per Swift module,   *)
(* each on a thread of its own, on one shared cache.  A step of a thread   *)
(* is one access to the cache (serialized, section 5 of the specification) *)
(* together with the thread-local code that follows it.                    *)

NoLocal == [targetModule |-> NotFound, deps |-> ScanFailure, ret |-> "running"]

\* how often a record was written for id
CountRecord(counts, id) ==
    IF id \in DOMAIN counts THEN [counts EXCEPT ![id] = @ + 1]
    ELSE counts @@ (id :> 1)

RECURSIVE CountRecords(_, _)
CountRecords(counts, entries) ==
    IF entries = <<>> THEN counts
    ELSE CountRecords(CountRecord(counts, Head(entries).id), Tail(entries))

\* line 432: targetModule is a copy of the cache's record, so that extending
\* it leaves the cache as it is until updateDependency
TargetModuleByReference(c, moduleID, targetModule) ==
    updateDependency(c, moduleID, targetModule)

TargetModuleByCopy(c, moduleID, targetModule) == c

ConcInit ==
    /\ assertsEnabled = TRUE
    /\ inputArgs \in HostDriverArgs
    /\ searchPathOpts = HostSearchPaths
    /\ sourceFileName = NoSource
    /\ invocation = NotCalled
    /\ workingDir = NotCalled
    /\ diags = <<>>
    /\ bridging = NotCalled
    /\ cache = InitialCache
    /\ seen = {}
    /\ extended = {}
    /\ lastCall = NotCalled
    /\ pc = [t \in SwiftModules |-> "find"]
    /\ local = [t \in SwiftModules |-> NoLocal]
    /\ recordCount = [t \in SwiftModules |-> 0]
    /\ lookup = NotCalled
    /\ outputs = {}

ConcUnchanged ==
    UNCHANGED <<assertsEnabled, argVars, bridging, extended, lastCall, diags,
                pathVars>>

\* lines 430-447: the lookup, the copy and the early return
FindTargetModule(t) ==
    /\ pc[t] = "find"
    /\ \E targetModule \in {findDependency(cache, t)} :
          /\ targetModule # NotFound
          /\ local' = [local EXCEPT ![t].targetModule = targetModule,
                                    ![t].ret = IF AlreadyRecorded(targetModule)
                                               THEN FALSE ELSE @]
          /\ pc' = [pc EXCEPT ![t] = IF AlreadyRecorded(targetModule)
                                     THEN "done" ELSE "scan"]
    /\ UNCHANGED <<cache, seen, recordCount>>
    /\ ConcUnchanged

\* lines 449-478: the invocation, the working directory and the scan, which
\* reads the already-seen set
ScanBridgingHeader(t) ==
    /\ pc[t] = "scan"
    /\ \E args \in getClangDepScanningInvocationArguments(
                       inputArgs, searchPathOpts,
                       local[t].targetModule.bridgingHeader, assertsEnabled) :
       \E wd \in computeClangWorkingDirectory(args.args) :
          IF args.status # "ok" \/ wd.status = "crash"
          THEN /\ pc' = [pc EXCEPT ![t] = "stopped"]
               /\ UNCHANGED local
          ELSE IF wd.status = "error"
          THEN /\ pc' = [pc EXCEPT ![t] = "done"]
               /\ local' = [local EXCEPT ![t].ret = TRUE]
          ELSE \E answer \in ScannerAnswers(seen) :
                  IF answer.status = "error"
                  THEN /\ pc' = [pc EXCEPT ![t] = "done"]
                       /\ local' = [local EXCEPT ![t].ret = TRUE]
                  ELSE /\ pc' = [pc EXCEPT ![t] = "record"]
                       /\ local' = [local EXCEPT ![t].deps = answer.deps]
    /\ UNCHANGED <<cache, seen, recordCount>>
    /\ ConcUnchanged

\* lines 480-486: bridgeClangModuleDependencies and recordDependencies
RecordDependencies(t) ==
    /\ pc[t] = "record"
    /\ \E recorded \in {RecordBridgedDependencies(cache, seen, local[t].deps)} :
          /\ cache' = recorded.cache
          /\ seen' = recorded.seen
          /\ recordCount' = CountRecords(
                                recordCount,
                                SubSeq(recorded.cache, Len(cache) + 1,
                                       Len(recorded.cache)))
    /\ pc' = [pc EXCEPT ![t] = "merge"]
    /\ UNCHANGED local
    /\ ConcUnchanged

\* lines 488-499: the source files, the module dependencies and the include
\* tree are added to targetModule
ExtendTargetModule(t) ==
    /\ pc[t] = "merge"
    /\ local' = [local EXCEPT ![t].targetModule =
                    MergeBridgingDependencies(@, local[t].deps)]
    /\ cache' = TargetModuleByCopy(cache, t, local'[t].targetModule)
    /\ pc' = [pc EXCEPT ![t] = "options"]
    /\ UNCHANGED <<seen, recordCount>>
    /\ ConcUnchanged

\* line 501
RecordBridgingHeaderOptions(t) ==
    /\ pc[t] = "options"
    /\ local' = [local EXCEPT ![t].targetModule =
                    recordBridgingHeaderOptions(@, local[t].deps)]
    /\ cache' = TargetModuleByCopy(cache, t, local'[t].targetModule)
    /\ pc' = [pc EXCEPT ![t] = "update"]
    /\ UNCHANGED <<seen, recordCount>>
    /\ ConcUnchanged

\* lines 504-506: updateDependency, and the return
UpdateDependency(t) ==
    /\ pc[t] = "update"
    /\ cache' = updateDependency(cache, t, local[t].targetModule)
    /\ recordCount' = CountRecord(recordCount, t)
    /\ local' = [local EXCEPT ![t].ret = FALSE]
    /\ pc' = [pc EXCEPT ![t] = "done"]
    /\ UNCHANGED seen
    /\ ConcUnchanged

ConcNext ==
    \E t \in SwiftModules :
        \/ FindTargetModule(t)
        \/ ScanBridgingHeader(t)
        \/ RecordDependencies(t)
        \/ ExtendTargetModule(t)
        \/ RecordBridgingHeaderOptions(t)
        \/ UpdateDependency(t)

ConcSpec == ConcInit /\ [][ConcNext]_vars

-----------------------------------------------------------------------------
(* Properties of the argument functions (ArgSpec). *)

\* The upstream driver-argument contract: the sentinel is present, the first
\* -fmodule-format= token exists and is not the first token, -fsyntax-only
\* is present.
DriverContract(driverArgs) ==
    /\ Find(driverArgs, Sentinel) <= Len(driverArgs)
    /\ FindPrefix(driverArgs, ModuleFormatPrefix) \in 2..Len(driverArgs)
    /\ Find(driverArgs, SyntaxOnly) <= Len(driverArgs)

\* The token before the first -fmodule-format= token is neither the sentinel
\* nor the first -fsyntax-only.
PrecedingTokenIsPlain(driverArgs) ==
    LET m == FindPrefix(driverArgs, ModuleFormatPrefix)
    IN  /\ m - 1 # Find(driverArgs, Sentinel)
        /\ m - 1 # Find(driverArgs, SyntaxOnly)

\* The argument list the edits describe, each edit read off the driver
\* arguments as given: token by token, the first sentinel becomes the source
\* file (or nothing), the first -fmodule-format= token and its predecessor
\* become nothing, the first -fsyntax-only becomes -c, every other token is
\* kept; then the search-path flags and -gmodules follow.
EditedDriverArgs(driverArgs, src) ==
    LET s == Find(driverArgs, Sentinel)
        m == FindPrefix(driverArgs, ModuleFormatPrefix)
        y == Find(driverArgs, SyntaxOnly)
        Edit(i) ==
            IF i = m \/ i = m - 1 THEN <<>>
            ELSE IF i = s THEN (IF src # NoSource THEN <<src>> ELSE <<>>)
            ELSE IF i = y THEN <<"-c">>
            ELSE <<driverArgs[i]>>
    IN  Flatten([i \in 1..Len(driverArgs) |-> Edit(i)])

ExpectedInvocation(driverArgs, opts, src) ==
    addSearchPathInvocationArguments(EditedDriverArgs(driverArgs, src), opts)
        \o <<"-gmodules">>

InvocationAsEdited ==
    /\ invocation.status = "ok"
    /\ ~invocation.ub
    /\ invocation.args =
          ExpectedInvocation(inputArgs, searchPathOpts, sourceFileName)
    /\ sourceFileName # NoSource => sourceFileName \in Elems(invocation.args)

\* C7 (as claimed): computeClangWorkingDirectory returns the argument that
\* follows "-working-directory", and for an argument list whose last element
\* is "-working-directory" it returns no result plus one
\* clang_dependency_scan_error diagnostic, never a crash or an out-of-bounds
\* read.
C7_WorkingDirectoryAsClaimed ==
    workingDir # NotCalled =>
        LET n == Len(inputArgs)
            last == n + 1 - RFind(inputArgs, WorkingDirectoryFlag)
        IN  /\ (last \in 1..(n - 1)) =>
                  workingDir = [status |-> "ok", dir |-> inputArgs[last + 1]]
            /\ (n > 0 /\ inputArgs[n] = WorkingDirectoryFlag) =>
                  /\ workingDir.status = "error"
                  /\ diags = <<MissingWorkingDirectory>>

\* C9 (as claimed): for every driver argument list that meets the driver
\* contract the returned list is the driver arguments followed by the
\* search-path flags with exactly the three edits applied and -gmodules
\* appended, and the source file stands in the result.
C9_InvocationEditsAsClaimed ==
    (invocation # NotCalled /\ DriverContract(inputArgs)) => InvocationAsEdited

\* C9 (amended): the same, for driver argument lists in which the token
\* before the first -fmodule-format= token is neither the sentinel nor the
\* first -fsyntax-only.
C9_InvocationEdits ==
    (/\ invocation # NotCalled
     /\ DriverContract(inputArgs)
     /\ PrecedingTokenIsPlain(inputArgs)) => InvocationAsEdited

\* C9 witness: a contract-meeting driver list with a plain token before
\* -fmodule-format=, search paths and a source file, for which a list was
\* returned.
C9_Witness ==
    /\ invocation.status = "ok"
    /\ DriverContract(inputArgs)
    /\ PrecedingTokenIsPlain(inputArgs)
    /\ sourceFileName = "Input.h"
    /\ searchPathOpts # NoSearchPaths

\* C10 (as claimed): whenever the driver arguments violate the contract the
\* function stops at an assertion and returns no argument list.
C10_FailsFastAsClaimed ==
    (invocation # NotCalled /\ ~DriverContract(inputArgs)) =>
        invocation.status = "abort"

-----------------------------------------------------------------------------
(* Properties of getModuleDependencies and of the bridging loop (ModSpec). *)

\* The edges of a module as the loop must leave them: one per direct module
\* dependency, in order, with the dependency's name and the Clang kind.
EdgesOf(clangModuleDep) ==
    [n \in 1..Len(clangModuleDep.ClangModuleDeps) |->
        [ModuleName |-> clangModuleDep.ClangModuleDeps[n].ModuleName,
         Kind |-> "Clang"]]

\* The loop taken step by step returns what the loop taken at once returns.
BridgeStepsAgree ==
    (bridging.status = "returned" /\ bridging.error = NoError) =>
        bridging.result =
            bridgeClangModuleDependencies(bridging.graph, ModuleOutputPath,
                                          ModuleMapper)

\* C6: every record bridgeClangModuleDependencies returns is marked resolved
\* (also for graphs without module-to-module edges), and a record that is
\* marked resolved, returned or still under construction, already holds one
\* edge per direct module dependency, each with the dependency's name and
\* the Clang kind.
C6_ResolvedAfterEdges ==
    bridging.status \in {"bridging", "returned"} =>
        /\ \A k \in 1..Len(bridging.result) :
              /\ bridging.result[k].info.resolved
              /\ bridging.result[k].info.moduleDependencies =
                    EdgesOf(bridging.graph[k])
        /\ (bridging.current # NoModule /\ bridging.current.info.resolved) =>
              bridging.current.info.moduleDependencies =
                  EdgesOf(bridging.graph[bridging.index])

\* C6 witness: a graph with a module of two dependencies and a module of
\* none has been bridged and returned.
C6_Witness ==
    /\ bridging.status = "returned"
    /\ Len(bridging.result) = 2
    /\ Len(bridging.result[1].info.moduleDependencies) = 2
    /\ bridging.result[2].info.moduleDependencies = <<>>
    /\ bridging.result[2].info.resolved

\* The error is the "module not found" error for the requested module,
\* alone or after other output of the scanner.
IsModuleNotFoundError(errorStr, moduleName) ==
    \E before \in {"", "error: unknown argument\n"} :
        errorStr = before \o "fatal error: module '" \o moduleName
                              \o "' not found"

\* C8: when the scan of getModuleDependencies fails the result is the empty
\* vector, and one clang_dependency_scan_error diagnostic with the scanner's
\* error string is emitted, except for the "module not found" error for the
\* requested module, for which none is emitted.
C8_ScanFailure ==
    (bridging.status = "returned" /\ bridging.error # NoError) =>
        /\ bridging.result = <<>>
        /\ diags = IF IsModuleNotFoundError(bridging.error, bridging.moduleName)
                   THEN <<>>
                   ELSE <<[id |-> "clang_dependency_scan_error",
                           text |-> bridging.error]>>

\* C8 witness: the scan failed with "module not found" for another module
\* than the requested one, and the error was reported.
C8_Witness ==
    /\ bridging.status = "returned"
    /\ bridging.moduleName = "B"
    /\ bridging.error = "fatal error: module 'A' not found"
    /\ diags # <<>>

\* C8 witness of the suppressed case.
C8_SuppressedReached ==
    /\ bridging.status = "returned"
    /\ bridging.moduleName = "A"
    /\ bridging.error = "fatal error: module 'A' not found"
    /\ diags = <<>>

-----------------------------------------------------------------------------
(* Properties of addBridgingHeaderDependencies (Spec). *)

CallReturned == lastCall.status = "returned"

\* C1, as claimed: a call on a host module on which an earlier call has
\* succeeded returns success (FALSE) without invoking the scanner and
\* without changing the cache, whatever the scanner answered the first time.
C1_SecondCallIsNoOp ==
    CallReturned /\ lastCall.repeat =>
        /\ ~lastCall.scanned
        /\ lastCall.ret = FALSE
        /\ ~lastCall.changed

\* C2: a call that returns failure (TRUE) leaves the cache as it was: no
\* record of a foreign module added, the host module's record unchanged,
\* the already-seen set unchanged.
C2_FailureLeavesCache ==
    CallReturned /\ lastCall.ret => ~lastCall.changed

\* a scan failed after an earlier call had filled the cache
C2_Witness ==
    /\ CallReturned /\ lastCall.ret /\ lastCall.scanned
    /\ cache # InitialCache
    /\ seen # {}

UniquePerID(c) ==
    \A i, j \in 1..Len(c) : c[i].id = c[j].id => i = j

\* C5, as claimed: neither the vector returned by
\* bridgeClangModuleDependencies nor the cache holds two entries for one
\* ModuleDependencyID, for every raw module graph.
C5_BridgedOnceAsClaimed ==
    /\ UniquePerID(cache)
    /\ ~(CallReturned /\ lastCall.vectorRepeatsID)

\* C5: the cache never holds two entries for one ModuleDependencyID; the
\* vector returned by bridgeClangModuleDependencies holds two entries for
\* one ID only if the raw module graph holds two modules of one name.
C5_BridgedOnce ==
    /\ UniquePerID(cache)
    /\ (CallReturned /\ lastCall.vectorRepeatsID => lastCall.graphRepeatsName)

\* a graph of several modules of different names was bridged and recorded
C5_Witness ==
    /\ CallReturned /\ ~lastCall.ret /\ lastCall.changed
    /\ lastCall.graphSize >= 2
    /\ ~lastCall.graphRepeatsName

\* a graph with two modules of one name was bridged and recorded
C5_RepeatedNameReached ==
    CallReturned /\ lastCall.graphRepeatsName /\ lastCall.vectorRepeatsID

-----------------------------------------------------------------------------
(* Properties of concurrent calls (ConcSpec). *)

\* the record of host module t before the call, and after a whole call
RecordBefore(t) == SwiftModuleInfo(t.Kind, BridgingHeaderOf(t))

RecordAfter(t) ==
    recordBridgingHeaderOptions(
        MergeBridgingDependencies(RecordBefore(t), local[t].deps),
        local[t].deps)

\* what a lookup of host module t finds is the record as it was before the
\* call or as the whole call leaves it
WholeRecord(t) ==
    \/ findDependency(cache, t) = RecordBefore(t)
    \/ /\ local[t].deps # ScanFailure
       /\ findDependency(cache, t) = RecordAfter(t)

-----------------------------------------------------------------------------
(* Properties of the bridged argument list (ModSpec). *)

\* The parts of the argument list of one raw module, as the claim names
\* them.  getModuleDependencies passes a null mapper, so paths stay as they
\* are.
FixedArgs(dep) ==
    <<"-frontend", "-emit-pcm", "-module-name", dep.ID.ModuleName, "-o",
      ModuleOutputPath \o "/" \o dep.ID.ModuleName \o "-" \o dep.ID.ContextHash
          \o ".pcm",
      "-direct-clang-cc1-module-build", dep.ClangModuleMapFile>>

HostOverlayArgs ==
    Flatten([i \in 1..Len(ctxVFSOverlayFiles) |->
                <<"-vfsoverlay", ctxVFSOverlayFiles[i]>>])

\* the scanner-reported overlay files the host's list does not hold
NewOverlayArgs(dep) ==
    Flatten([i \in 1..Len(dep.BuildArguments) |->
                IF /\ i > 1
                   /\ dep.BuildArguments[i - 1] = "-ivfsoverlay"
                   /\ \A k \in 1..Len(ctxVFSOverlayFiles) :
                         ctxVFSOverlayFiles[k] # dep.BuildArguments[i]
                THEN <<"-vfsoverlay", dep.BuildArguments[i]>>
                ELSE <<>>])

\* the round-tripped arguments, each preceded by -Xcc
RoundTrippedArgs(dep) ==
    Flatten([i \in 1..Len(dep.BuildArguments) |->
                IF \/ startswith(dep.BuildArguments[i], "-fmodule-file-cache-key=")
                   \/ startswith(dep.BuildArguments[i], "-fdepscan-prefix-map=")
                THEN <<>>
                ELSE <<"-Xcc", dep.BuildArguments[i]>>])

CASArgs(dep) ==
    ctxCASConfigurationFlags
    \o (IF dep.CASFileSystemRootID # NoID
        THEN <<"-no-clang-include-tree", "-cas-fs", dep.CASFileSystemRootID>>
        ELSE <<>>)
    \o (IF dep.IncludeTreeID # NoID
        THEN <<"-clang-include-tree-root", dep.IncludeTreeID>>
        ELSE <<>>)

\* every record of the bridging loop, finished or under construction, with
\* the raw module it is made from
BridgedSoFar ==
    IF bridging.status \in {"bridging", "returned"}
    THEN {<<bridging.graph[k], bridging.result[k].info>> :
             k \in 1..Len(bridging.result)}
         \cup (IF bridging.current # NoModule
               THEN {<<bridging.graph[bridging.index], bridging.current.info>>}
               ELSE {})
    ELSE {}

\* C11, as claimed: the argument list of a raw module is the fixed
\* arguments, the host's overlay flags, the round-tripped arguments each
\* preceded by -Xcc, the scanner-reported overlay files the host does not
\* list, and the CAS flags, in this order.
C11_ArgumentOrderAsClaimed ==
    \A x \in BridgedSoFar :
        x[2].buildCommandLine =
            FixedArgs(x[1]) \o HostOverlayArgs \o RoundTrippedArgs(x[1])
                \o NewOverlayArgs(x[1]) \o CASArgs(x[1])

\* C11: the argument list of a raw module is the fixed arguments, the
\* host's overlay flags, the scanner-reported overlay files the host does
\* not list, the round-tripped arguments each preceded by -Xcc, and the CAS
\* flags with the CAS root and include tree flags when present, in this
\* order.
C11_ArgumentOrder ==
    \A x \in BridgedSoFar :
        x[2].buildCommandLine =
            FixedArgs(x[1]) \o HostOverlayArgs \o NewOverlayArgs(x[1])
                \o RoundTrippedArgs(x[1]) \o CASArgs(x[1])

\* a module with an overlay file of its own and a CAS root, and a module
\* with the host's overlay file and an include tree, have been bridged
C11_Witness ==
    /\ bridging.status = "returned"
    /\ \E x \in BridgedSoFar :
          /\ NewOverlayArgs(x[1]) # <<>>
          /\ RoundTrippedArgs(x[1]) # <<>>
          /\ x[1].CASFileSystemRootID # NoID
    /\ \E x \in BridgedSoFar :
          /\ NewOverlayArgs(x[1]) = <<>>
          /\ Len(x[1].BuildArguments) > 1
          /\ x[1].IncludeTreeID # NoID

-----------------------------------------------------------------------------
(* Properties of the paths of bridged records (Spec). *)

\* the paths bridgeClangModuleDependencies has put into an argument list:
\* the module map and the files that follow -vfsoverlay
InsertedPaths(swiftArgs) ==
    {swiftArgs[8]}
    \cup {swiftArgs[i] : i \in {j \in 2..Len(swiftArgs) :
                                   swiftArgs[j - 1] = "-vfsoverlay"}}

\* a path the scan service's remapper would still change
NotRemapped(path) == remapPath(ScanServiceRemap, path) # path

\* C12, as claimed: with a remapper supplied, every path in the argument
\* list of a bridged record, the module map path and every overlay path,
\* from the host's list or reported by the scanner, has been remapped.
C12_EveryPathRemapped ==
    \A i \in 1..Len(cache) :
        cache[i].info.kind = ClangKind =>
            \A path \in InsertedPaths(cache[i].info.buildCommandLine) :
                ~NotRemapped(path)

-----------------------------------------------------------------------------
(* Properties of moduleCacheRelativeLookupModuleOutput (PathSpec). *)

\* <name>-<contextHash> of the module asked for
NameAndHash == lookup.MID.ModuleName \o "-" \o lookup.MID.ContextHash

\* C13, as claimed: for DependencyTargets the result is <name>-<contextHash>
\* whatever the root; for ModuleFile, DependencyFile and
\* DiagnosticSerializationFile it is cacheRoot/<name>-<contextHash> with an
\* extension, and the three differ in nothing but the extension.
C13_OutputPathsAsClaimed ==
    /\ \A o \in outputs :
          IF o.kind = "DependencyTargets"
          THEN o.path = NameAndHash
          ELSE \E extension \in {"pcm", "d", "dia"} :
                  o.path = PathAppend(lookup.moduleCachePath, NameAndHash)
                               \o "." \o extension
    /\ \A o1, o2 \in outputs : o1.kind # o2.kind => o1.path # o2.path

-----------------------------------------------------------------------------
(* Properties of the order of the cache writes (ConcSpec). *)

\* the bridging module dependencies of every Swift module's record
ListedBridgingDependencies ==
    UNION {Elems(cache[i].info.bridgingModuleDependencies) :
              i \in {j \in 1..Len(cache) : cache[j].id \in SwiftModules}}

\* C14: a call that has recorded the bridged modules of its scan and not
\* yet updated its host module's record finds the modules of the graph in
\* the cache and the host's record as it was; and in every state each
\* bridging module dependency listed in a Swift module's record names a
\* Clang module that has a record in the cache (the scanner leaving out of
\* its graph only modules of the already-seen set).
C14_RecordedBeforeUpdate ==
    /\ \A t \in SwiftModules :
          pc[t] \in {"merge", "options", "update"} =>
              /\ \A j \in 1..Len(local[t].deps.ModuleGraph) :
                    hasDependency(
                        cache,
                        ModuleDependencyID(
                            local[t].deps.ModuleGraph[j].ID.ModuleName,
                            ClangKind))
              /\ findDependency(cache, t) = RecordBefore(t)
    /\ \A name \in ListedBridgingDependencies :
          hasDependency(cache, ModuleDependencyID(name, ClangKind))

\* a call has returned success and its host record lists module A, which
\* the scanner had left out of the call's module graph as already seen,
\* while the other call has recorded its graph and not yet updated its host
\* record
C14_Witness ==
    \E t, u \in SwiftModules :
        /\ pc[t] = "done"
        /\ local[t].ret = FALSE
        /\ "A" \in Elems(findDependency(cache, t).bridgingModuleDependencies)
        /\ \A j \in 1..Len(local[t].deps.ModuleGraph) :
               local[t].deps.ModuleGraph[j].ID.ModuleName # "A"
        /\ pc[u] = "update"
        /\ local[u].deps.ModuleGraph # <<>>

=============================================================================
